---- MODULE Spec2Model ----
(***************************************************************************)
(* Model of the colour discovery service of akkio-color-swatches           *)
(* (services/colorApi.js: cache, fetchColorData, fetchDistinctColors,      *)
(* clearCache), of handleValuesChange of App.jsx and of the debounce       *)
(* effect of Controls.jsx.                                                 *)
(*                                                                         *)
(* JavaScript runs one task at a time: between two awaits on the network a *)
(* call runs without interruption, so an action below is one task (a call  *)
(* being started, one response arriving, one abort) followed by everything *)
(* the resumed call does until it next waits for the network or settles.   *)
(*                                                                         *)
(* A colour record carries hue, saturation, lightness and name; the rgb,   *)
(* hex and hsl fields are copied from the response and read by nothing in  *)
(* the service, so only their presence in the response is modelled.        *)
(***************************************************************************)
EXTENDS Integers, Sequences, FiniteSets, TLC

\* ------------------------------------------------------------ constants

HUE_LIMIT == 360
COARSE_STEP == 10
BATCH_SIZE == 20
DEBOUNCE_DELAY == 500

\* ------------------------------------------------------------ bounds

\* A response may overtake at most MaxReorder - 1 requests sent before it.
MaxReorder == 2
\* Calls of fetchDistinctColors made in one behaviour.
MaxCalls == 3
\* Calls that may be waiting for the network at the same time.
MaxActive == 2
\* Times the remote service changes the answers it gives.
MaxRemoteChanges == 1

\* How often the cache is reset in the reset scenario.
MaxResets == 1
\* Steps of time in one DEBOUNCE_DELAY.
TicksPerDelay == 2
\* Changes of the sliders and number fields of Controls in one behaviour.
MaxChanges == 3

Calls == 1..MaxCalls

\* The (saturation, lightness) pairs the calls are made with.
ParamPairs == {<<50, 50>>, <<100, 50>>}

\* ------------------------------------------------------------ the remote service

\* What the service answers for one request: the fetch fails, the status is
\* not ok, the body is no JSON, or a body with some of its fields.
NetworkFailure == [kind |-> "network"]
HttpError == [kind |-> "http", ok |-> FALSE, status |-> 500]
Body(hasRgb, hasName, value, hasHex) ==
  [kind |-> "json", ok |-> TRUE, rgb |-> hasRgb, name |-> hasName,
   value |-> value, hex |-> hasHex]

\* The answer a pattern's token stands for: a colour name ("" is a body whose
\* name.value is empty), or one of the failures.
ResponseOf(token) ==
  CASE token = "!network" -> NetworkFailure
    [] token = "!500" -> HttpError
    [] token = "!norgb" -> Body(FALSE, TRUE, "Red", TRUE)
    [] token = "!noname" -> Body(TRUE, FALSE, "", TRUE)
    [] token = "!nohex" -> Body(TRUE, TRUE, "Red", FALSE)
    [] OTHER -> Body(TRUE, TRUE, token, TRUE)

\* The labellings of the hue circle the service may use: each a list of
\* <<first hue, token>> segments, a segment running to the next one's start.
Patterns ==
  << << <<0, "Red">> >>,
     << <<0, "Red">>, <<15, "Orange">> >>,
     << <<0, "Red">>, <<10, "">>, <<20, "Orange">>, <<30, "Red">> >>,
     << <<0, "Red">>, <<3, "Pink">>, <<7, "Red">> >>,
     << <<0, "Red">>, <<100, "Orange">>, <<353, "Green">> >>,
     << <<0, "Red">>, <<12, "!500">>, <<13, "Red">>, <<15, "Orange">> >>,
     << <<0, "Red">>, <<15, "Orange">>, <<350, "!network">>, <<351, "Orange">> >>,
     << <<0, "!norgb">>, <<1, "Red">>, <<340, "">>, <<356, "!nohex">>, <<357, "Red">> >> >>

PatternIds == 1..Len(Patterns)

\* The patterns a scenario with two parameter pairs starts from: its second
\* pair is answered by the next pattern, so every pattern is met.
StartPatterns == {p \in PatternIds : p % 2 = 1}

RECURSIVE TokenAt(_, _, _)
TokenAt(segs, h, i) ==
  IF i = Len(segs) \/ segs[i + 1][1] > h THEN segs[i][2]
  ELSE TokenAt(segs, h, i + 1)

\* The service labels the second parameter pair by the next pattern.
PatternFor(p, saturation, lightness) ==
  IF <<saturation, lightness>> = <<50, 50>> THEN p ELSE (p % Len(Patterns)) + 1

Classify(p, hue, saturation, lightness) ==
  ResponseOf(TokenAt(Patterns[PatternFor(p, saturation, lightness)], hue, 1))

\* ------------------------------------------------------------ state

VARIABLES
  cache,      \* the module's Map: cacheKey -> colour record
  remote,     \* the pattern the service answers with
  inflight,   \* requests sent and not settled, in the order they were sent
  session,    \* per call of fetchDistinctColors: its locals and where it is
  env,        \* the scenario: how many calls may run, whether the service changes
  app,        \* the state of the App component
  controls    \* the state of the Controls component, its timers and the time

vars == <<cache, remote, inflight, session, env, app, controls>>

\* ------------------------------------------------------------ fetchColorData

CacheKey(hue, saturation, lightness) == <<hue, saturation, lightness>>

\* A lookup that never finds its key.
CacheHasNothing(cch, key) == FALSE

\* A lookup that finds the keys of the coarse hues only.
CacheHasCoarse(cch, key) == key \in DOMAIN cch /\ key[1] % COARSE_STEP = 0

CacheHas(cch, key) == key \in DOMAIN cch

\* A cache of one entry: a new entry evicts the others.
CacheSetEvicting(cch, key, value) == (key :> value)

\* Map.prototype.set: the value replaces the one the key held.
CacheSet(cch, key, value) == (key :> value) @@ cch

\* The record built with 'name: data.name.value', the fallback left out.
ColorDataOfUnnamed(resp, hue, saturation, lightness) ==
  IF resp.kind = "network" THEN [ok |-> FALSE, error |-> "Failed to fetch"]
  ELSE IF ~resp.ok THEN [ok |-> FALSE, error |-> "API error: 500"]
  ELSE IF ~resp.rgb \/ ~resp.name
    THEN [ok |-> FALSE, error |-> "Invalid API response structure"]
  ELSE IF ~resp.hex THEN [ok |-> FALSE, error |-> "TypeError"]
  ELSE [ok |-> TRUE,
        color |-> [hue |-> hue, saturation |-> saturation,
                   lightness |-> lightness, name |-> resp.value]]

\* fetchColorData after the response: the colour record it caches and
\* returns, or the error it throws.
ColorDataOf(resp, hue, saturation, lightness) ==
  IF resp.kind = "network" THEN [ok |-> FALSE, error |-> "Failed to fetch"]
  ELSE IF ~resp.ok THEN [ok |-> FALSE, error |-> "API error: 500"]
  ELSE IF ~resp.rgb \/ ~resp.name
    THEN [ok |-> FALSE, error |-> "Invalid API response structure"]
  ELSE IF ~resp.hex THEN [ok |-> FALSE, error |-> "TypeError"]
  ELSE [ok |-> TRUE,
        color |-> [hue |-> hue, saturation |-> saturation,
                   lightness |-> lightness,
                   name |-> IF resp.value = "" THEN "Unnamed" ELSE resp.value]]

\* ------------------------------------------------------------ colorsByHue

\* A JavaScript Map keeps its keys in insertion order; setting a key that is
\* present keeps its place.
EmptyMap == [keys |-> <<>>, value |-> <<>>]

MapHas(m, hue) == hue \in DOMAIN m.value

MapGet(m, hue) == m.value[hue]

MapSet(m, color) ==
  [keys |-> IF MapHas(m, color.hue) THEN m.keys ELSE Append(m.keys, color.hue),
   value |-> (color.hue :> color) @@ m.value]

\* colors.forEach(color => m.set(color.hue, color)), for colours of distinct
\* hues: the new keys are appended in the order of colors.
MapSetAll(m, colors) ==
  LET hues == [j \in 1..Len(colors) |-> colors[j].hue]
      index(h) == CHOOSE j \in 1..Len(colors) : colors[j].hue = h
  IN [keys |-> m.keys \o SelectSeq(hues, LAMBDA h : ~MapHas(m, h)),
      value |-> [h \in {hues[j] : j \in 1..Len(hues)} |-> colors[index(h)]] @@ m.value]

MapKeys(m) == m.keys

\* ------------------------------------------------------------ the phases

\* for (h = 0; h < 360; h += 10) coarseHues.push(h)
coarseHues ==
  [j \in 1..((HUE_LIMIT + COARSE_STEP - 1) \div COARSE_STEP) |-> (j - 1) * COARSE_STEP]

\* A test that compares the hues of a pair where it should compare the names.
IsBoundaryByHue(m, currentHue, nextHue) ==
  /\ MapHas(m, currentHue)
  /\ MapHas(m, nextHue)
  /\ MapGet(m, currentHue).name # "Unnamed"
  /\ MapGet(m, currentHue).hue > MapGet(m, nextHue).hue

\* Phase 2: the pairs of neighbouring coarse hues, the last with the first,
\* that both have a colour, the first not 'Unnamed', and whose names differ.
IsBoundary(m, currentHue, nextHue) ==
  /\ MapHas(m, currentHue)
  /\ MapHas(m, nextHue)
  /\ MapGet(m, currentHue).name # "Unnamed"
  /\ MapGet(m, currentHue).name # MapGet(m, nextHue).name

BoundaryRanges(m) ==
  LET pairs == [j \in 1..Len(coarseHues) |->
                  [start |-> coarseHues[j],
                   end |-> coarseHues[(j % Len(coarseHues)) + 1]]]
  IN SelectSeq(pairs, LAMBDA range : IsBoundary(m, range.start, range.end))

\* The enumeration without 'if (end < start) end += 360'.
FillHuesNoWrap(range) ==
  [k \in 1..(IF range.end - range.start - 1 > 0 THEN range.end - range.start - 1 ELSE 0)
     |-> (range.start + k) % HUE_LIMIT]

\* The enumeration with 'h += 2' for its step.
FillHuesEveryOther(range) ==
  LET end == IF range.end < range.start THEN range.end + HUE_LIMIT ELSE range.end
  IN [k \in 1..(IF end - range.start - 1 > 0 THEN (end - range.start) \div 2 ELSE 0)
        |-> (range.start + 2 * k - 1) % HUE_LIMIT]

\* The enumeration with 'h < end - 1' for its bound.
FillHuesShort(range) ==
  LET end == IF range.end < range.start THEN range.end + HUE_LIMIT ELSE range.end
  IN [k \in 1..(IF end - range.start - 2 > 0 THEN end - range.start - 2 ELSE 0)
        |-> (range.start + k) % HUE_LIMIT]

\* Phase 3: the hues strictly inside a range.
FillHues(range) ==
  LET end == IF range.end < range.start THEN range.end + HUE_LIMIT ELSE range.end
  IN [k \in 1..(IF end - range.start - 1 > 0 THEN end - range.start - 1 ELSE 0)
        |-> (range.start + k) % HUE_LIMIT]

\* Array.prototype.sort with (a, b) => a - b.
SortAscending(hues) == SortSeq(hues, LAMBDA a, b : a < b)

SeqToSet(s) == {s[i] : i \in 1..Len(s)}

\* The keys as the Map iterates them, unsorted.
SortedHuesUnsorted(m) == MapKeys(m)

\* The keys sorted with the comparison reversed.
SortedHuesDescending(m) == SortSeq(MapKeys(m), LAMBDA a, b : a > b)

SortedHues(m) == SortAscending(MapKeys(m))

RECURSIVE Collect(_, _, _, _, _)

\* Phase 4 without the seenNames test.
CollectRepeating(m, order, i, seenNames, distinctColors) ==
  IF i > Len(order) THEN distinctColors
  ELSE LET color == MapGet(m, order[i])
       IN IF color.name = "" \/ color.name = "Unnamed"
            THEN Collect(m, order, i + 1, seenNames, distinctColors)
            ELSE Collect(m, order, i + 1, seenNames \cup {color.name},
                         Append(distinctColors, color))

\* Phase 4 without the skip of unnamed colours.
CollectUnnamed(m, order, i, seenNames, distinctColors) ==
  IF i > Len(order) THEN distinctColors
  ELSE LET color == MapGet(m, order[i])
       IN IF color.name \notin seenNames
            THEN Collect(m, order, i + 1, seenNames \cup {color.name},
                         Append(distinctColors, color))
            ELSE Collect(m, order, i + 1, seenNames, distinctColors)

\* Phase 4: the first colour of each name, in the order of sortedHues.
Collect(m, order, i, seenNames, distinctColors) ==
  IF i > Len(order) THEN distinctColors
  ELSE LET color == MapGet(m, order[i])
       IN IF color.name = "" \/ color.name = "Unnamed"
            THEN Collect(m, order, i + 1, seenNames, distinctColors)
          ELSE IF color.name \notin seenNames
            THEN Collect(m, order, i + 1, seenNames \cup {color.name},
                         Append(distinctColors, color))
          ELSE Collect(m, order, i + 1, seenNames, distinctColors)

DistinctColors(m) == Collect(m, SortedHues(m), 1, {}, <<>>)

\* ------------------------------------------------------------ fetchDistinctColors

\* The locals of a call that has not been made. cold records that the call
\* was made on an empty cache with no request of another call in flight.
IdleSession ==
  [pc |-> "idle", saturation |-> 0, lightness |-> 0, aborted |-> FALSE,
   colorsByHue |-> EmptyMap, phase |-> 1, batch |-> <<>>, i |-> 0, results |-> <<>>,
   chunk |-> <<>>, chunkResults |-> <<>>, boundaryRanges |-> <<>>, r |-> 0,
   distinctColors |-> <<>>, error |-> "", lookups |-> 0, logged |-> 0,
   abortedAtCall |-> FALSE, prior |-> {}, cold |-> FALSE]

Min(a, b) == IF a < b THEN a ELSE b

\* A key that leaves the call's parameters out: one entry per hue.
KeyOfShared(s, hue) == CacheKey(hue, 50, 50)

KeyOf(s, hue) == CacheKey(hue, s.saturation, s.lightness)

\* The hues of the chunk a call waits for whose lookups have not settled.
Outstanding(s) ==
  SelectSeq(s.chunk, LAMBDA h : h \notin DOMAIN s.chunkResults)

\* fetch(url) without the signal: an aborted signal stops no request.
SignalIgnored(s) == FALSE

\* fetch(url, { signal }) rejects at once, sending nothing, when the signal
\* is aborted.
SignalAborted(s) == s.aborted

\* A rejection that loses the error's name: an abort counts as a failure.
RejectedAsFailure(s, error) == [s EXCEPT !.pc = "failed", !.error = error]

\* A rejection that is swallowed: the call returns what it has.
RejectedReturning(s, error) ==
  [s EXCEPT !.pc = IF error = "AbortError" THEN "cancelled" ELSE "returned",
            !.error = error]

\* A rejection after which the failed lookups are sent again: the call
\* waits on, one lookup more on its count.
RejectedRetrying(s, error) ==
  IF error = "AbortError" THEN [s EXCEPT !.pc = "cancelled", !.error = error]
  ELSE [s EXCEPT !.lookups = @ + 1]

\* A rejection that nothing receives: the call waits on.
RejectedUnheard(s, error) == s

\* Promise.all rejects with the first error of its chunk, and with it
\* fetchBatch and the call.
Rejected(s, error) ==
  [s EXCEPT !.pc = IF error = "AbortError" THEN "cancelled" ELSE "failed",
            !.error = error]

\* A slice that takes the rest of the batch, whatever its length.
ChunkWhole(batch, i) == SubSeq(batch, i + 1, Len(batch))

\* batch.slice(i, i + BATCH_SIZE)
Chunk(batch, i) == SubSeq(batch, i + 1, Min(i + BATCH_SIZE, Len(batch)))

\* An abort of a controller whose signal the call was not given.
AbortedUnsignalled(s) == s

\* controller.abort() as the call sees it: its signal is aborted, and if it
\* waits for the network its requests reject with the AbortError.
Aborted(s) ==
  IF s.pc = "await"
    THEN Rejected([s EXCEPT !.aborted = TRUE], "AbortError")
    ELSE [s EXCEPT !.aborted = TRUE]

RECURSIVE FetchBatch(_, _, _)
RECURSIVE ChunkLoop(_, _)
RECURSIVE AfterBatch(_, _)
RECURSIVE Phase3Loop(_, _)

\* fetchBatch up to its chunk loop: cached hues go to colorsByHue at once,
\* the others are the batch.
\* fetchBatch without its else branch: a cached hue is not put into
\* colorsByHue.
FetchBatchSkippingCached(s, hues, cch) ==
  LET batch == SelectSeq(hues, LAMBDA h : ~CacheHas(cch, KeyOf(s, h)))
  IN IF Len(batch) = 0
       THEN AfterBatch(s, cch)
       ELSE ChunkLoop([s EXCEPT !.batch = batch, !.i = 0, !.results = <<>>], cch)

FetchBatch(s, hues, cch) ==
  LET cached == SelectSeq(hues, LAMBDA h : CacheHas(cch, KeyOf(s, h)))
      batch == SelectSeq(hues, LAMBDA h : ~CacheHas(cch, KeyOf(s, h)))
      m == MapSetAll(s.colorsByHue,
                     [j \in 1..Len(cached) |-> cch[KeyOf(s, cached[j])]])
  IN IF Len(batch) = 0
       THEN AfterBatch([s EXCEPT !.colorsByHue = m], cch)
       ELSE ChunkLoop([s EXCEPT !.colorsByHue = m, !.batch = batch, !.i = 0,
                                !.results = <<>>], cch)

\* The chunk loop of fetchBatch from offset i: each hue of the chunk goes
\* through fetchColorData, which answers from the cache or sends a request
\* (an aborted signal makes fetch reject at once, nothing is sent). The call
\* waits when a request was sent; after the last chunk the results go to
\* colorsByHue.
ChunkLoop(s, cch) ==
  IF s.i >= Len(s.batch)
    THEN AfterBatch([s EXCEPT !.colorsByHue = MapSetAll(@, s.results)], cch)
  ELSE LET chunk == Chunk(s.batch, s.i)
           hits == {h \in SeqToSet(chunk) : CacheHas(cch, KeyOf(s, h))}
           misses == SeqToSet(chunk) \ hits
       IN IF misses = {}
            THEN ChunkLoop([s EXCEPT
                   !.results = @ \o [j \in 1..Len(chunk) |-> cch[KeyOf(s, chunk[j])]],
                   !.i = @ + BATCH_SIZE], cch)
          ELSE IF SignalAborted(s)
            THEN Rejected([s EXCEPT !.chunk = chunk,
                             !.chunkResults = [h \in hits |-> cch[KeyOf(s, h)]]],
                          "AbortError")
          ELSE [s EXCEPT !.pc = "await", !.chunk = chunk,
                         !.chunkResults = [h \in hits |-> cch[KeyOf(s, h)]],
                         !.lookups = @ + Cardinality(misses)]

\* A call that collects as soon as a batch is in, without Phase 2 or Phase 3.
AfterBatchCollecting(s, cch) ==
  [s EXCEPT !.pc = "returned", !.distinctColors = DistinctColors(s.colorsByHue)]

\* After the coarse batch: Phase 2, then the first range. After a range's
\* batch: the next range.
AfterBatch(s, cch) ==
  IF s.phase = 1
    THEN Phase3Loop([s EXCEPT !.boundaryRanges = BoundaryRanges(s.colorsByHue),
                              !.phase = 3, !.r = 1], cch)
    ELSE Phase3Loop([s EXCEPT !.r = @ + 1], cch)

\* Phase 3 from range r, and Phase 4 after the last range.
Phase3Loop(s, cch) ==
  IF s.r > Len(s.boundaryRanges)
    THEN [s EXCEPT !.pc = "returned",
                   !.distinctColors = DistinctColors(s.colorsByHue)]
  ELSE LET fillHues == FillHues(s.boundaryRanges[s.r])
       IN IF Len(fillHues) > 0
            THEN FetchBatch(s, fillHues, cch)
            ELSE Phase3Loop([s EXCEPT !.r = @ + 1], cch)

\* The requests a call sent in the step that left it waiting.
Requests(c, s) ==
  IF s.pc = "await"
    THEN LET out == Outstanding(s)
         IN [j \in 1..Len(out) |-> [call |-> c, hue |-> out[j]]]
    ELSE <<>>

Remove(seq, k) == [j \in 1..(Len(seq) - 1) |-> IF j < k THEN seq[j] ELSE seq[j + 1]]

Waiting == {c \in Calls : session[c].pc = "await"}

\* ------------------------------------------------------------ App

\* The state of App after its first render. error "null" is null;
\* abortControllerRef holds the call whose controller it refers to, 0 for
\* null; called holds the setters each call of handleValuesChange has called
\* after its await, loadingFor the calls before whose await it has called
\* setIsLoading(true).
InitialApp ==
  [colors |-> <<>>, isLoading |-> FALSE, error |-> "null",
   abortControllerRef |-> 0, called |-> {}, loadingFor |-> {}]

\* The objects handleValuesChange is called with: the sliders' values, a
\* number typed beyond the sliders' range, an object without saturation.
AppInputs ==
  {[saturation |-> 50, lightness |-> 50],
   [saturation |-> 150, lightness |-> 50],
   [lightness |-> 50]}

\* Neither saturation nor lightness is undefined.
Defined(v) == "saturation" \in DOMAIN v /\ "lightness" \in DOMAIN v

AppPairs == {<<v.saturation, v.lightness>> : v \in {w \in AppInputs : Defined(w)}}

\* The message handleValuesChange shows for an error.
ErrorMessage(error) ==
  CASE error = "Failed to fetch" ->
         "Failed to load colors. Please check your internet connection and try again."
    [] error = "API error: 500" -> "Failed to load colors. API error: 500"
    [] error = "Invalid API response structure" ->
         "Failed to load colors. Invalid API response structure"
    [] OTHER -> "Failed to load colors. Cannot read properties of undefined"

\* handleValuesChange after its await resolved.
OnResolved(a, c, s) ==
  IF s.aborted THEN a
  ELSE [a EXCEPT !.colors = s.distinctColors, !.error = "null",
                 !.called = @ \cup {<<c, "setColors">>, <<c, "setError">>}]

\* A catch block without the test for the AbortError.
OnRejectedReportingAbort(a, c, s) ==
  [a EXCEPT !.error = ErrorMessage(s.error),
            !.called = @ \cup {<<c, "setError">>}]

\* A catch block that also empties the colours.
OnRejectedClearing(a, c, s) ==
  IF s.error = "AbortError" THEN a
  ELSE [a EXCEPT !.colors = <<>>, !.error = ErrorMessage(s.error),
                 !.called = @ \cup {<<c, "setColors">>, <<c, "setError">>}]

\* handleValuesChange's catch block.
OnRejected(a, c, s) ==
  IF s.error = "AbortError" THEN a
  ELSE [a EXCEPT !.error = ErrorMessage(s.error),
                 !.called = @ \cup {<<c, "setError">>}]

\* A finally block that clears the loading flag whatever the signal says.
FinallyAlways(a, c, s) ==
  [a EXCEPT !.isLoading = FALSE, !.called = @ \cup {<<c, "setIsLoading">>}]

\* handleValuesChange's finally block.
Finally(a, c, s) ==
  IF ~s.aborted
    THEN [a EXCEPT !.isLoading = FALSE, !.called = @ \cup {<<c, "setIsLoading">>}]
    ELSE a

\* handleValuesChange from its await on, once the call s has settled.
AfterDiscovery(a, c, s) ==
  IF s.pc = "returned" THEN Finally(OnResolved(a, c, s), c, s)
  ELSE IF s.pc \in {"cancelled", "failed"} THEN Finally(OnRejected(a, c, s), c, s)
  ELSE a

\* An abortControllerRef that is never read.
PreviousForgotten(a) == 0

\* abortControllerRef.current
Previous(a) == a.abortControllerRef

\* ------------------------------------------------------------ Controls

\* The state of Controls before its first effect: the useState values, the
\* ref of the debounce timer (0 for null; a timer's id is the number of the
\* effect run that set it), the timers pending, each with the time left and
\* the values its callback closed over. sinceChange is the time since the
\* effect last ran, calledSince the calls of onValuesChange since then,
\* changes the changes made, run the changes of the latest sequence (changes
\* that each came before the timer of the one before fired), fired the calls
\* of onValuesChange, lastCall the values of the last.
InitialControls ==
  [mounted |-> FALSE, saturation |-> 50, lightness |-> 50, debounceTimer |-> 0,
   timers |-> <<>>, sinceChange |-> 0, calledSince |-> 0, changes |-> 0,
   run |-> 0, fired |-> 0, lastCall |-> <<>>]

\* The texts of e.target.value, character by character.
ControlTexts == {<<"5", "0">>, <<"1", "5", "0">>, <<"1", "5", "0", ".", "5">>}

DigitOf ==
  ("0" :> 0) @@ ("1" :> 1) @@ ("2" :> 2) @@ ("3" :> 3) @@ ("4" :> 4) @@
  ("5" :> 5) @@ ("6" :> 6) @@ ("7" :> 7) @@ ("8" :> 8) @@ ("9" :> 9)

RECURSIVE ParseDigits(_, _, _)
ParseDigits(text, i, acc) ==
  IF i > Len(text) \/ text[i] \notin DOMAIN DigitOf THEN acc
  ELSE ParseDigits(text, i + 1, acc * 10 + DigitOf[text[i]])

\* parseInt(text, 10) of a text without sign or leading blanks: the digits
\* up to the first other character, NaN if there is none.
ParseInt(text) ==
  IF Len(text) = 0 \/ text[1] \notin DOMAIN DigitOf THEN "NaN"
  ELSE ParseDigits(text, 1, 0)

\* The values Controls can hold here, and the objects it passes on.
ControlValues == {ParseInt(text) : text \in ControlTexts}

ControlPairs == ControlValues \X ControlValues

ControlInputs == [saturation : ControlValues, lightness : ControlValues]

\* The time one step of the clock takes at most.
TickLength == DEBOUNCE_DELAY \div TicksPerDelay

\* An effect that leaves the timer before running.
ClearTimeoutForgotten(timers, id) == timers

\* clearTimeout(id): a pending timer is removed, any other id is ignored.
ClearTimeout(timers, id) == [i \in DOMAIN timers \ {id} |-> timers[i]]

\* setTimeout without its delay: the callback is due at once.
SetTimeoutAtOnce(timers, id, saturation, lightness) ==
  (id :> [remaining |-> 0, saturation |-> saturation,
          lightness |-> lightness]) @@ timers

\* setTimeout(() => onValuesChange({ saturation, lightness }), DEBOUNCE_DELAY)
SetTimeout(timers, id, saturation, lightness) ==
  (id :> [remaining |-> DEBOUNCE_DELAY, saturation |-> saturation,
          lightness |-> lightness]) @@ timers

\* The debounce effect of Controls for the values of ctl, the cleanup of the
\* run before included: the timer of the ref is cleared, a new one is set
\* and the ref refers to it.
Effect(ctl, id) ==
  LET cleared == IF ctl.debounceTimer # 0
                   THEN ClearTimeout(ctl.timers, ctl.debounceTimer) ELSE ctl.timers
  IN [ctl EXCEPT !.timers = SetTimeout(cleared, id, ctl.saturation, ctl.lightness),
                 !.debounceTimer = id, !.sinceChange = 0, !.calledSince = 0]

\* The timers whose time has come.
Due(ctl) == {id \in DOMAIN ctl.timers : ctl.timers[id].remaining = 0}

\* The time the clock may advance by: a step, or less if a timer comes
\* due before.
Advance(ctl) ==
  LET d == {ctl.timers[id].remaining : id \in DOMAIN ctl.timers} \cup {TickLength}
  IN CHOOSE x \in d : \A y \in d : x <= y

\* ------------------------------------------------------------ initial states

\* The hues a finished discovery under pattern p leaves in the cache.
ColorAt(p, hue, sl) == ColorDataOf(Classify(p, hue, sl[1], sl[2]), hue, sl[1], sl[2])

CoarseMap(p, sl) ==
  LET good == SelectSeq(coarseHues, LAMBDA h : ColorAt(p, h, sl).ok)
  IN MapSetAll(EmptyMap, [j \in 1..Len(good) |-> ColorAt(p, good[j], sl).color])

WarmHues(p, sl) ==
  LET ranges == BoundaryRanges(CoarseMap(p, sl))
  IN SeqToSet(coarseHues)
       \cup UNION {SeqToSet(FillHues(ranges[j])) : j \in 1..Len(ranges)}

\* What fetchDistinctColors(sl) computes on an empty cache, alone, while the
\* service answers with pattern p: the error of a lookup ends it, otherwise
\* it collects from the colours of the coarse hues and of the hues inside
\* the ranges.
Alone(p, sl) ==
  LET warm == WarmHues(p, sl)
      hues == SelectSeq([j \in 1..HUE_LIMIT |-> j - 1], LAMBDA h : h \in warm)
  IN IF \E j \in 1..Len(hues) : ~ColorAt(p, hues[j], sl).ok
       THEN [ok |-> FALSE, colors |-> <<>>]
       ELSE [ok |-> TRUE,
             colors |-> DistinctColors(
               MapSetAll(EmptyMap, [j \in 1..Len(hues) |-> ColorAt(p, hues[j], sl).color]))]

\* Every pair a call is made with in some scenario.
AllPairs == ParamPairs \cup AppPairs \cup ControlPairs

AloneTable == [p \in PatternIds, sl \in AllPairs |-> Alone(p, sl)]

\* The names, 'Unnamed' apart, the service gives to the hues 0..359.
AllNames(p, sl) ==
  {ColorAt(p, h, sl).color.name :
     h \in {g \in 0..(HUE_LIMIT - 1) : ColorAt(p, g, sl).ok}} \ {"", "Unnamed"}

NamesTable == [p \in PatternIds, sl \in AllPairs |-> AllNames(p, sl)]

\* The hues missing from an otherwise warm cache.
ColdSets == {{}, {10, 15}, {0, 350, 355}}

\* The race scenario starts from a pattern and missing hues for which a changed
\* answer opens no range that the cache does not cover. The third
\* entry is the number of calls made.
RaceStarts ==
  {<<2, {15}, MaxCalls>>, <<5, {355}, MaxCalls>>, <<5, {95, 355}, MaxActive>>}

WarmCache(p, cold, pairs) ==
  LET warm == [sl \in pairs |-> WarmHues(p, sl) \ cold]
      kept == {k \in {CacheKey(h, sl[1], sl[2]) : h \in UNION {warm[x] : x \in pairs},
                                                    sl \in pairs} :
                 /\ k[1] \in warm[<<k[2], k[3]>>]
                 /\ ColorAt(p, k[1], <<k[2], k[3]>>).ok}
  IN [k \in kept |-> ColorAt(p, k[1], <<k[2], k[3]>>).color]

\* The scenarios. Cold: an empty cache and a single call. Overlap: a cache
\* warm but for a few hues and calls that run at the same time, with either
\* parameter pair and signals that may be aborted beforehand. Race: calls in
\* turn and at the same time with one parameter pair, while the service
\* changes its answers.
InitCold ==
  /\ cache = <<>>
  /\ remote \in StartPatterns
  /\ env = [calls |-> 1, active |-> 1, changes |-> 0,
            pairs |-> ParamPairs, preAbort |-> TRUE, mounted |-> FALSE,
            changed |-> FALSE, resets |-> 0, maxResets |-> 0, debounced |-> FALSE]

InitOverlap ==
  /\ remote \in StartPatterns
  /\ \E cold \in ColdSets : cache = WarmCache(remote, cold, ParamPairs)
  /\ env = [calls |-> MaxActive, active |-> MaxActive, changes |-> 0,
            pairs |-> ParamPairs, preAbort |-> TRUE, mounted |-> FALSE,
            changed |-> FALSE, resets |-> 0, maxResets |-> 0, debounced |-> FALSE]

InitRace ==
  /\ \E x \in RaceStarts :
       /\ remote = x[1]
       /\ cache = WarmCache(x[1], x[2], {<<50, 50>>})
       /\ env = [calls |-> x[3], active |-> MaxActive, changes |-> MaxRemoteChanges,
                 pairs |-> {<<50, 50>>}, preAbort |-> FALSE, mounted |-> FALSE,
                 changed |-> FALSE, resets |-> 0, maxResets |-> 0, debounced |-> FALSE]

\* Mount: App on an empty cache, and the call its mount effect or its first
\* debounce timer makes. Revisit: App later in its life, the error banner
\* dismissed, on a cache that earlier discoveries left warm but for a few
\* hues; each call of handleValuesChange supersedes the one before.
InitMount ==
  /\ cache = <<>>
  /\ remote \in StartPatterns
  /\ env = [calls |-> 1, active |-> 1, changes |-> 0,
            pairs |-> AppPairs, preAbort |-> FALSE, mounted |-> TRUE,
            changed |-> FALSE, resets |-> 0, maxResets |-> 0, debounced |-> FALSE]

InitRevisit ==
  /\ remote \in StartPatterns
  /\ \E cold \in ColdSets : cache = WarmCache(remote, cold, AppPairs)
  /\ env = [calls |-> MaxCalls, active |-> 1, changes |-> 0,
            pairs |-> AppPairs, preAbort |-> FALSE, mounted |-> TRUE,
            changed |-> FALSE, resets |-> 0, maxResets |-> 0, debounced |-> FALSE]

\* Reset: two calls in turn with one parameter pair on a warm cache that its
\* owner resets between calls.
InitReset ==
  /\ remote = 2
  /\ cache = WarmCache(remote, {}, {<<50, 50>>})
  /\ env = [calls |-> 2, active |-> 1, changes |-> 0,
            pairs |-> {<<50, 50>>}, preAbort |-> FALSE, mounted |-> FALSE,
            changed |-> FALSE, resets |-> 0, maxResets |-> MaxResets,
            debounced |-> FALSE]

\* Debounce: App and Controls before their mount effects, on a cache warm
\* for every pair Controls can hold, or warm but for one hue;
\* handleValuesChange is called by the mount effect of App and by the timers
\* of Controls only.
InitDebounce ==
  /\ remote = 2
  /\ \E cold \in {{}, {15}} : cache = WarmCache(remote, cold, ControlPairs)
  /\ env = [calls |-> MaxCalls, active |-> 1, changes |-> 0,
            pairs |-> ControlPairs, preAbort |-> FALSE, mounted |-> TRUE,
            changed |-> FALSE, resets |-> 0, maxResets |-> 0, debounced |-> TRUE]

Init ==
  /\ InitCold \/ InitOverlap \/ InitRace \/ InitMount \/ InitRevisit \/ InitReset \/ InitDebounce
  /\ inflight = <<>>
  /\ session = [c \in Calls |-> IdleSession]
  /\ app = InitialApp
  /\ controls = InitialControls

\* ------------------------------------------------------------ actions

\* The call that is made next.
NextCall(c) ==
  /\ session[c].pc = "idle"
  /\ c <= env.calls
  /\ \A d \in Calls : d < c => session[d].pc # "idle"

\* fetchDistinctColors(saturation, lightness, signal) is called, with the
\* signal its caller made for it.
Start(c, sl) ==
  /\ ~env.mounted
  /\ NextCall(c)
  /\ sl \in env.pairs
  /\ Cardinality(Waiting) < env.active
  /\ LET s0 == [session[c] EXCEPT !.saturation = sl[1], !.lightness = sl[2],
                                 !.abortedAtCall = session[c].aborted,
                                 !.prior = {d \in Calls : session[d].pc = "returned"},
                                 !.cold = (cache = <<>> /\ inflight = <<>>)]
         s1 == FetchBatch(s0, coarseHues, cache)
     IN /\ session' = [session EXCEPT ![c] = s1]
        /\ inflight' = inflight \o Requests(c, s1)
  /\ UNCHANGED <<cache, remote, env, app, controls>>

\* A request's response arrives and passes fetchColorData's checks: the
\* colour is cached; a call waiting for it takes it and, with its chunk
\* complete, runs on.
Respond(k) ==
  /\ k \in 1..Min(Len(inflight), MaxReorder)
  /\ LET c == inflight[k].call
         hue == inflight[k].hue
         s == session[c]
         out == ColorDataOf(Classify(remote, hue, s.saturation, s.lightness),
                            hue, s.saturation, s.lightness)
         cch == CacheSet(cache, KeyOf(s, hue), out.color)
         got == (hue :> out.color) @@ s.chunkResults
         s1 == IF s.pc # "await" THEN s
               ELSE IF DOMAIN got # SeqToSet(s.chunk)
                 THEN [s EXCEPT !.chunkResults = got]
               ELSE ChunkLoop([s EXCEPT
                      !.results = @ \o [j \in 1..Len(s.chunk) |-> got[s.chunk[j]]],
                      !.i = @ + BATCH_SIZE,
                      !.chunk = <<>>, !.chunkResults = <<>>], cch)
     IN /\ out.ok
        /\ cache' = cch
        /\ session' = [session EXCEPT ![c] = s1]
        /\ inflight' = Remove(inflight, k)
                         \o (IF s.pc = "await" /\ DOMAIN got = SeqToSet(s.chunk)
                               THEN Requests(c, s1) ELSE <<>>)
        /\ app' = IF env.mounted /\ s.pc = "await"
                    THEN AfterDiscovery(app, c, s1) ELSE app
  /\ UNCHANGED <<remote, env, controls>>

\* A request fails (network, status, payload): fetchColorData logs the error
\* and throws it, nothing is cached, and a call waiting for the request is
\* rejected while its other requests go on.
RespondError(k) ==
  /\ k \in 1..Min(Len(inflight), MaxReorder)
  /\ LET c == inflight[k].call
         hue == inflight[k].hue
         s == session[c]
         out == ColorDataOf(Classify(remote, hue, s.saturation, s.lightness),
                            hue, s.saturation, s.lightness)
         s1 == [s EXCEPT !.logged = @ + 1]
         s2 == IF s.pc = "await" THEN Rejected(s1, out.error) ELSE s1
     IN /\ ~out.ok
        /\ session' = [session EXCEPT ![c] = s2]
        /\ inflight' = Remove(inflight, k)
        /\ app' = IF env.mounted /\ s.pc = "await"
                    THEN AfterDiscovery(app, c, s2) ELSE app
  /\ UNCHANGED <<cache, remote, env, controls>>

\* fetch(url) without the signal: an abort rejects no request.
AfterAbortUnsignalled(requests, c) == requests

\* fetch(url, { signal }): the requests of a call whose signal is aborted
\* are rejected with an AbortError; the others stay in flight.
AfterAbort(requests, c) == SelectSeq(requests, LAMBDA q : q.call # c)

\* The caller aborts the call's signal, before the call is made or after: the
\* call, if it waits for the network, is rejected with the AbortError.
Abort(c) ==
  /\ ~env.mounted
  /\ ~session[c].aborted
  /\ session[c].pc # "idle" \/ (env.preAbort /\ NextCall(c))
  /\ session' = [session EXCEPT ![c] = Aborted(@)]
  /\ inflight' = AfterAbort(inflight, c)
  /\ UNCHANGED <<cache, remote, env, app, controls>>

\* App's handleValuesChange is called, by the mount effect or by the debounce
\* timer of Controls: an undefined value is warned about and nothing else
\* happens; otherwise the controller of the call before is aborted, a new
\* one made, the loading flag set, the error cleared and fetchDistinctColors
\* called. The handlers of the aborted call and, if the new call is served
\* from the cache, of the new call run before the task ends.
HandleValuesChange(c, v) ==
  /\ env.mounted
  /\ NextCall(c)
  /\ v \in AppInputs \cup ControlInputs
  /\ IF ~Defined(v)
       THEN /\ session' = [session EXCEPT ![c] = [@ EXCEPT !.pc = "invalid"]]
            /\ UNCHANGED <<inflight, app>>
       ELSE LET prev == Previous(app)
                aborted == IF prev = 0 THEN session
                           ELSE [session EXCEPT ![prev] = Aborted(@)]
                s0 == [session[c] EXCEPT
                         !.saturation = v.saturation, !.lightness = v.lightness,
                         !.prior = {d \in Calls : aborted[d].pc = "returned"},
                         !.cold = /\ cache = <<>>
                                  /\ \A j \in 1..Len(inflight) : inflight[j].call = prev]
                s1 == FetchBatch(s0, coarseHues, cache)
                a1 == [app EXCEPT !.abortControllerRef = c, !.isLoading = TRUE,
                                  !.loadingFor = @ \cup {c}, !.error = "null"]
                a2 == IF prev # 0 /\ session[prev].pc = "await"
                        THEN AfterDiscovery(a1, prev, aborted[prev]) ELSE a1
            IN /\ session' = [aborted EXCEPT ![c] = s1]
               /\ inflight' = (IF prev = 0 THEN inflight
                                ELSE AfterAbort(inflight, prev)) \o Requests(c, s1)
               /\ app' = AfterDiscovery(a2, c, s1)
  /\ UNCHANGED <<cache, remote, env>>

\* handleValuesChange called as in the scenarios without Controls.
Request(c, v) ==
  /\ ~env.debounced
  /\ HandleValuesChange(c, v)
  /\ UNCHANGED controls

\* The first commit: the debounce effect of Controls runs, then the mount
\* effect of App calls handleValuesChange with the default values.
Mount ==
  /\ env.debounced
  /\ ~controls.mounted
  /\ HandleValuesChange(1, [saturation |-> 50, lightness |-> 50])
  /\ controls' = Effect([controls EXCEPT !.mounted = TRUE], 1)

\* handleSaturationChange or handleLightnessChange with a text that changes
\* the value: the state is set, Controls renders again and the debounce
\* effect runs. A call of handleValuesChange is left for its timer.
Change(field, text) ==
  /\ env.debounced
  /\ controls.mounted
  /\ controls.changes < MaxChanges
  /\ \E c \in Calls : NextCall(c)
  /\ ParseInt(text) # controls[field]
  /\ controls' =
       Effect([controls EXCEPT
                 ![field] = ParseInt(text),
                 !.changes = @ + 1,
                 !.run = IF controls.calledSince = 0 /\ controls.changes > 0
                           THEN @ + 1 ELSE 1],
              controls.changes + 2)
  /\ UNCHANGED <<cache, remote, inflight, session, env, app>>

\* Time passes, up to the moment a timer comes due and never past a timer
\* that is due.
Tick ==
  /\ env.debounced
  /\ controls.mounted
  /\ Due(controls) = {}
  /\ controls.sinceChange <= DEBOUNCE_DELAY
  /\ LET d == Advance(controls)
     IN controls' =
          [controls EXCEPT
             !.timers = [id \in DOMAIN @ |-> [@[id] EXCEPT !.remaining = @ - d]],
             !.sinceChange = Min(@ + d, DEBOUNCE_DELAY + TickLength)]
  /\ UNCHANGED <<cache, remote, inflight, session, env, app>>

\* A timer of Controls fires: onValuesChange, which is handleValuesChange,
\* is called with the values the timer's callback closed over.
TimerFires(c, id) ==
  /\ env.debounced
  /\ id \in Due(controls)
  /\ LET t == controls.timers[id]
     IN /\ HandleValuesChange(c, [saturation |-> t.saturation,
                                  lightness |-> t.lightness])
        /\ controls' =
             [controls EXCEPT
                !.timers = [i \in DOMAIN @ \ {id} |-> @[i]],
                !.calledSince = @ + 1, !.fired = @ + 1,
                !.lastCall = <<t.saturation, t.lightness>>]

\* The dismiss button of the error banner.
DismissError ==
  /\ env.mounted
  /\ app.error # "null"
  /\ app' = [app EXCEPT !.error = "null"]
  /\ UNCHANGED <<cache, remote, inflight, session, env, controls>>

\* The service starts answering with another pattern.
RemoteChange(p) ==
  /\ env.changes > 0
  /\ p = (remote % Len(Patterns)) + 1
  /\ remote' = p
  /\ env' = [env EXCEPT !.changes = @ - 1, !.changed = TRUE]
  /\ UNCHANGED <<cache, inflight, session, app, controls>>

\* clearCache(): cache.clear(). Nothing in the repository calls it; here its
\* caller does between calls, after a first call and while none waits for
\* the network.
ClearCache ==
  /\ env.resets < env.maxResets
  /\ session[1].pc # "idle"
  /\ Waiting = {}
  /\ cache' = <<>>
  /\ env' = [env EXCEPT !.resets = @ + 1]
  /\ UNCHANGED <<remote, inflight, session, app, controls>>

Next ==
  \/ \E c \in Calls, sl \in ParamPairs : Start(c, sl)
  \/ \E k \in 1..MaxReorder : Respond(k)
  \/ \E k \in 1..MaxReorder : RespondError(k)
  \/ \E c \in Calls : Abort(c)
  \/ \E p \in PatternIds : RemoteChange(p)
  \/ \E c \in Calls, v \in AppInputs : Request(c, v)
  \/ Mount
  \/ \E field \in {"saturation", "lightness"}, text \in ControlTexts : Change(field, text)
  \/ Tick
  \/ \E c \in Calls, id \in 1..(MaxChanges + 1) : TimerFires(c, id)
  \/ DismissError
  \/ ClearCache

Spec == Init /\ [][Next]_vars

\* The service on its own, from an empty cache or one warm but for a few
\* hues: calls are made, alone or at the same time, and aborted, and every
\* request sent is answered or fails in the end: weak fairness of Settles,
\* whose enabling condition is that a request is in flight.
InitLive ==
  /\ remote \in StartPatterns
  /\ \/ /\ cache = <<>>
        /\ env = [calls |-> 1, active |-> 1, changes |-> 0,
                  pairs |-> ParamPairs, preAbort |-> TRUE, mounted |-> FALSE,
                  changed |-> FALSE, resets |-> 0, maxResets |-> 0,
                  debounced |-> FALSE]
     \/ /\ \E cold \in ColdSets : cache = WarmCache(remote, cold, ParamPairs)
        /\ env = [calls |-> 2, active |-> 2, changes |-> 0,
                  pairs |-> ParamPairs, preAbort |-> TRUE, mounted |-> FALSE,
                  changed |-> FALSE, resets |-> 0, maxResets |-> 0,
                  debounced |-> FALSE]
  /\ inflight = <<>>
  /\ session = [c \in Calls |-> IdleSession]
  /\ app = InitialApp
  /\ controls = InitialControls

Settles == \E k \in 1..MaxReorder : Respond(k) \/ RespondError(k)

NextLive ==
  \/ \E c \in Calls, sl \in ParamPairs : Start(c, sl)
  \/ \E c \in Calls : Abort(c)
  \/ Settles

SpecLive ==
  /\ InitLive
  /\ [][NextLive]_vars
  /\ (<>[](inflight # <<>>) => []<><<Settles>>_vars)

\* ------------------------------------------------------------ properties

Returned(c) == session[c].pc = "returned"

Output(c) == session[c].distinctColors

\* The hues a call has a colour for.
ResolvedHues(c) == DOMAIN session[c].colorsByHue.value

ColorOf(c, hue) == MapGet(session[c].colorsByHue, hue)

Named(name) == name # "" /\ name # "Unnamed"

\* C1: the sequence a call returns never holds two entries of the same name.
C1_NoDuplicateNames ==
  \A c \in Calls : Returned(c) =>
    \A i, j \in 1..Len(Output(c)) :
      i # j => Output(c)[i].name # Output(c)[j].name

\* A call returned several colours, and a name it returned is held at two hues.
C1_Witness ==
  \E c \in Calls :
    /\ Returned(c)
    /\ Len(Output(c)) >= 2
    /\ \E g, h \in ResolvedHues(c) :
         /\ g # h
         /\ ColorOf(c, g).name = ColorOf(c, h).name
         /\ Named(ColorOf(c, g).name)

\* C2: no entry of the sequence a call returns has an empty or 'Unnamed' name.
C2_NoUnnamedEntry ==
  \A c \in Calls : Returned(c) =>
    \A i \in 1..Len(Output(c)) : Named(Output(c)[i].name)

\* A call returned colours although a hue it resolved is 'Unnamed'.
C2_Witness ==
  \E c \in Calls :
    /\ Returned(c)
    /\ Len(Output(c)) >= 1
    /\ \E h \in ResolvedHues(c) : ColorOf(c, h).name = "Unnamed"

\* C3: the entry returned for a name is the call's colour at the smallest
\* resolved hue that holds the name.
C3_SmallestHueRepresents ==
  \A c \in Calls : Returned(c) =>
    \A i \in 1..Len(Output(c)) :
      /\ Output(c)[i].hue \in ResolvedHues(c)
      /\ Output(c)[i] = ColorOf(c, Output(c)[i].hue)
      /\ \A h \in ResolvedHues(c) :
           ColorOf(c, h).name = Output(c)[i].name => Output(c)[i].hue <= h

\* A returned entry's hue entered colorsByHue after a larger hue of its name.
C3_Witness ==
  \E c \in Calls :
    /\ Returned(c)
    /\ LET keys == MapKeys(session[c].colorsByHue)
       IN \E i \in 1..Len(Output(c)), a, b \in 1..Len(keys) :
            /\ a < b
            /\ keys[b] = Output(c)[i].hue
            /\ keys[a] > keys[b]
            /\ ColorOf(c, keys[a]).name = Output(c)[i].name

\* C4: the sequence a call returns is in strictly ascending order of hue.
C4_AscendingHues ==
  \A c \in Calls : Returned(c) =>
    \A i, j \in 1..Len(Output(c)) :
      i < j => Output(c)[i].hue < Output(c)[j].hue

\* A call returned several colours from a colorsByHue whose keys are not in
\* ascending order.
C4_Witness ==
  \E c \in Calls :
    /\ Returned(c)
    /\ Len(Output(c)) >= 2
    /\ LET keys == MapKeys(session[c].colorsByHue)
       IN \E a, b \in 1..Len(keys) : a < b /\ keys[a] > keys[b]

Settled(c) == session[c].pc \in {"returned", "failed", "cancelled"}

SameParams(c, d) ==
  /\ session[c].saturation = session[d].saturation
  /\ session[c].lightness = session[d].lightness

\* C5: a call made after a call with the same parameters has returned, the
\* cache never reset, sends no request and returns the same sequence.
C5_SecondCallFromCache ==
  \A c, d \in Calls :
    (env.resets = 0 /\ Returned(d) /\ c \in session[d].prior /\ SameParams(c, d)) =>
      /\ session[d].lookups = 0
      /\ Output(d) = Output(c)

\* C6: a value the cache holds for a key is never replaced.
C6_CacheValueKept ==
  [][\A key \in DOMAIN cache :
       key \in DOMAIN cache' => cache'[key] = cache[key]]_vars

\* C7: a call whose signal is aborted before its Phase 3 has finished (before
\* the call is made included) never returns a sequence.
C7_AbortedNeverReturns ==
  [][\A c \in Calls :
       (session[c].aborted /\ ~Settled(c)) => ~Returned(c)']_vars

\* C7 as amended: a call whose signal is aborted while it waits for a lookup
\* is cancelled in that step; a call made with an aborted signal is cancelled
\* without sending a request if a hue it needs is missing from the cache, and
\* returns its sequence only if it needs no lookup at all; it never fails and
\* never waits.
C7_AbortedReturnsOnlyFromCache ==
  [][\A c \in Calls :
       /\ (session[c].pc = "await" /\ session'[c].aborted)
            => session'[c].pc = "cancelled"
       /\ (session[c].pc = "idle" /\ session[c].aborted /\ session'[c].pc # "idle")
            => /\ session'[c].pc \in {"returned", "cancelled"}
               /\ session'[c].lookups = 0
               /\ Returned(c)' <=>
                    \A h \in DOMAIN session'[c].colorsByHue.value
                               \cup SeqToSet(session'[c].chunk) :
                      CacheHas(cache, KeyOf(session'[c], h))]_vars

\* A call made with an aborted signal has returned colours, and a call made
\* with an aborted signal was cancelled in Phase 3.
C7_Witness ==
  /\ \E c \in Calls :
       /\ Returned(c)
       /\ session[c].abortedAtCall
       /\ Len(Output(c)) >= 2
  /\ \E c \in Calls :
       /\ session[c].pc = "cancelled"
       /\ session[c].abortedAtCall
       /\ session[c].phase = 3

\* C8: a call whose signal is aborted sends no further request.
C8_NoRequestAfterAbort ==
  [][\A c \in Calls :
       session[c].aborted =>
         /\ session'[c].lookups = session[c].lookups
         /\ \A j \in 1..Len(inflight') : inflight'[j].call # c]_vars

\* A call was cancelled with hues of its batch, or ranges, still to be sent.
C8_Witness ==
  \E c \in Calls :
    /\ session[c].pc = "cancelled"
    /\ session[c].lookups > 0
    /\ \/ session[c].i + BATCH_SIZE < Len(session[c].batch)
       \/ session[c].phase = 3 /\ session[c].r < Len(session[c].boundaryRanges)

\* C9: aborting a call's signal leaves its requests in flight, to finish and
\* be cached.
C9_AbortLeavesRequests ==
  [][\A c \in Calls :
       (~session[c].aborted /\ session'[c].aborted) => inflight' = inflight]_vars

\* C9 as amended: aborting a call's signal rejects every request of the call
\* that is in flight, and none of them is cached: the step changes no cache
\* entry and no request of an aborted call is ever in flight; what was cached
\* before stays.
C9_AbortRejectsRequests ==
  [][/\ \A c \in Calls :
          (~session[c].aborted /\ session'[c].aborted) => cache' = cache
     /\ \A j \in 1..Len(inflight') : ~session'[inflight'[j].call].aborted]_vars

\* A cancelled call had sent requests, and a hue of its chunk is in no cache
\* entry while another hue of the chunk, answered before the abort, is.
C9_Witness ==
  \E c \in Calls :
    /\ session[c].pc = "cancelled"
    /\ session[c].lookups > 0
    /\ \E g, h \in SeqToSet(session[c].chunk) :
         /\ ~CacheHas(cache, KeyOf(session[c], g))
         /\ h \in DOMAIN session[c].chunkResults
         /\ CacheHas(cache, KeyOf(session[c], h))

\* C10: a call one of whose lookups failed ends with that error and returns
\* no sequence, whatever it had resolved before.
C10_FailureEndsCall ==
  \A c \in Calls :
    session[c].logged > 0 =>
      /\ session[c].pc = "failed"
      /\ session[c].error \in {"Failed to fetch", "API error: 500",
                               "Invalid API response structure", "TypeError"}
      /\ Output(c) = <<>>

\* A call failed in Phase 3, with the coarse hues resolved before.
C10_Witness ==
  \E c \in Calls :
    /\ session[c].pc = "failed"
    /\ session[c].logged > 0
    /\ session[c].phase = 3
    /\ Len(session[c].colorsByHue.keys) >= Len(coarseHues)

\* The hues strictly between a range's ends, going up the circle from start.
Inside(range) ==
  IF range.start < range.end
    THEN (range.start + 1)..(range.end - 1)
    ELSE (range.start + 1)..(HUE_LIMIT - 1) \cup 0..(range.end - 1)

\* The hues inside the ranges a call has detected.
Interiors(c) ==
  UNION {Inside(session[c].boundaryRanges[j]) :
           j \in 1..Len(session[c].boundaryRanges)}

\* handleValuesChange went on to call fetchDistinctColors for the call.
Discovering(c) == session[c].pc \notin {"idle", "invalid"}

\* The requests of a call that are in flight.
InFlightOf(requests, c) == SelectSeq(requests, LAMBDA q : q.call = c)

\* C11: the step in which a call ends cancelled or failed changes no cache
\* entry, no step of a call removes a key from the cache, and a call (one made later
\* with the same parameters included) sends no request for a key the cache
\* holds: the coarse hues cached when it is made enter its colorsByHue with
\* the cached value.
C11_EndedCallKeepsCache ==
  [][/\ \A c \in Calls :
          (~Settled(c) /\ session'[c].pc \in {"cancelled", "failed"})
            => cache' = cache
     /\ env'.resets = env.resets => DOMAIN cache \subseteq DOMAIN cache'
     /\ \A c \in Calls :
          (/\ session'[c].pc = "await"
           /\ session[c].pc # "await" \/ session'[c].chunk # session[c].chunk)
            => \A h \in SeqToSet(Outstanding(session'[c])) :
                 KeyOf(session'[c], h) \notin DOMAIN cache'
     /\ \A c \in Calls :
          (session[c].pc = "idle" /\ session'[c].pc # "idle")
            => \A h \in SeqToSet(coarseHues) :
                 KeyOf(session'[c], h) \in DOMAIN cache
                   => /\ h \in DOMAIN session'[c].colorsByHue.value
                      /\ session'[c].colorsByHue.value[h]
                           = cache[KeyOf(session'[c], h)]]_vars

\* App has made a call after a call that failed and after a call that was
\* cancelled, all with the same parameters (in App a later call is made after
\* an earlier one has ended): it holds a cached hue that each of them held
\* and has sent fewer requests than either.
C11_Witness ==
  /\ env.mounted
  /\ \A outcome \in {"cancelled", "failed"} :
       \E c, d \in Calls :
         /\ c < d
         /\ session[c].pc = outcome
         /\ Discovering(d)
         /\ SameParams(c, d)
         /\ session[d].lookups < session[c].lookups
         /\ \E h \in ResolvedHues(c) \cup DOMAIN session[c].chunkResults :
              /\ CacheHas(cache, KeyOf(session[c], h))
              /\ h \in ResolvedHues(d)

\* C12: after Phase 1 the ranges of a call are exactly the pairs of
\* neighbouring coarse hues whose names are both neither empty nor 'Unnamed'
\* and differ.
C12_BoundaryIffBothNamed ==
  \A c \in Calls :
    session[c].phase = 3 =>
      \A j \in 1..Len(coarseHues) :
        LET range == [start |-> coarseHues[j],
                      end |-> coarseHues[(j % Len(coarseHues)) + 1]]
        IN (range \in SeqToSet(session[c].boundaryRanges))
             <=> /\ Named(ColorOf(c, range.start).name)
                 /\ Named(ColorOf(c, range.end).name)
                 /\ ColorOf(c, range.start).name # ColorOf(c, range.end).name

\* C13: a range whose end is below its start is filled with the hues above
\* the start and below the end, each once and all in 0..359; for the range
\* from 350 to 0 these are 351 to 359, and a call that returns has resolved
\* them.
C13_WrapAroundFilled ==
  \A c \in Calls :
    \A j \in 1..Len(session[c].boundaryRanges) :
      LET range == session[c].boundaryRanges[j]
          fillHues == FillHues(range)
      IN range.end < range.start =>
           /\ SeqToSet(fillHues)
                = {h \in 0..(HUE_LIMIT - 1) : h > range.start \/ h < range.end}
           /\ Len(fillHues) = Cardinality(SeqToSet(fillHues))
           /\ (range.start = 350 /\ range.end = 0)
                => fillHues = [k \in 1..9 |-> 350 + k]
           /\ Returned(c) => SeqToSet(fillHues) \subseteq ResolvedHues(c)

\* A call that detected the range from 350 to 0 has returned a colour found
\* inside it, after sending requests.
C13_Witness ==
  \E c \in Calls :
    /\ Returned(c)
    /\ session[c].lookups > 0
    /\ [start |-> 350, end |-> 0] \in SeqToSet(session[c].boundaryRanges)
    /\ \E i \in 1..Len(Output(c)) : Output(c)[i].hue > 350

Uniform(c) ==
  \A h \in SeqToSet(coarseHues) :
    /\ h \in ResolvedHues(c)
    /\ Named(ColorOf(c, h).name)
    /\ ColorOf(c, h).name = ColorOf(c, 0).name

C16_InvalidInputRejected ==
  \A c \in Calls :
    /\ session[c].pc = "invalid" => session[c].lookups = 0
    /\ (env.mounted /\ Discovering(c)) =>
         /\ session[c].saturation \in 0..100
         /\ session[c].lightness \in 0..100

\* C17: a call that ends cancelled makes handleValuesChange call no setter,
\* then or later; in the step that cancels it no error is shown, and the
\* colours and the loading flag are those of the call that superseded it:
\* its result and not loading if it was served from the cache, the colours as
\* they were and loading otherwise.
C17_CancelledChangesNothing ==
  [][\A c \in Calls :
       /\ (env.mounted /\ session'[c].pc = "cancelled")
            => \A x \in app'.called : x[1] # c
       /\ (env.mounted /\ session[c].pc = "await" /\ session'[c].pc = "cancelled")
            => /\ app'.error = "null"
               /\ LET d == app'.abortControllerRef
                  IN IF session'[d].pc = "returned"
                       THEN app'.colors = session'[d].distinctColors /\ ~app'.isLoading
                       ELSE app'.colors = app.colors /\ app'.isLoading]_vars

\* A call that had sent requests was cancelled while colours of an earlier
\* call were shown, and the call that superseded it is waiting.
C17_Witness ==
  \E c \in Calls :
    /\ env.mounted
    /\ session[c].pc = "cancelled"
    /\ session[c].lookups > 0
    /\ app.colors # <<>>
    /\ app.isLoading
    /\ \E d \in Calls : d > c /\ session[d].pc = "await"

\* C18: the step in which a call fails leaves the colours as they were,
\* without setColors being called for it, shows the message of its error and
\* ends loading.
C18_FailureKeepsColors ==
  [][\A c \in Calls :
       (env.mounted /\ session[c].pc = "await" /\ session'[c].pc = "failed")
         => /\ app'.colors = app.colors
            /\ <<c, "setColors">> \notin app'.called
            /\ app'.error # "null"
            /\ app'.error = ErrorMessage(session'[c].error)
            /\ ~app'.isLoading]_vars

\* A call failed while the colours of an earlier call were shown.
C18_Witness ==
  \E c, d \in Calls :
    /\ env.mounted
    /\ session[c].pc = "failed"
    /\ d < c
    /\ <<d, "setColors">> \in app.called
    /\ app.colors = session[d].distinctColors
    /\ app.colors # <<>>
    /\ app.error # "null"
    /\ ~app.isLoading

\* C19: the colours change only by setColors of the call made last, to its
\* result, and a superseded call never calls setColors.
C19_OnlyLatestSetsColors ==
  [][/\ \A c \in Calls :
          (<<c, "setColors">> \in app'.called /\ <<c, "setColors">> \notin app.called)
            => /\ \A d \in Calls : d > c => ~Discovering(d)'
               /\ ~session'[c].aborted
               /\ app'.colors = session'[c].distinctColors
     /\ app'.colors # app.colors =>
          \E c \in Calls :
            <<c, "setColors">> \in app'.called /\ <<c, "setColors">> \notin app.called]_vars

\* The colours shown are those of a call that followed a call it superseded
\* while that call waited for requests, and that itself had to send requests.
C19_Witness ==
  \E c, d \in Calls :
    /\ env.mounted
    /\ c < d
    /\ session[c].pc = "cancelled"
    /\ session[c].lookups > 0
    /\ Returned(d)
    /\ session[d].lookups > 0
    /\ <<d, "setColors">> \in app.called
    /\ app.colors = Output(d)
    /\ app.colors # <<>>

\* C21: the phases of a call run in order. While Phase 1 runs no range is
\* detected, nothing is collected and the call's requests are for coarse hues
\* only; the ranges are those of the coarse hues, all resolved, and are
\* detected without a request; a request for any other hue lies inside a
\* detected range; the call collects only once every hue inside every range
\* is resolved and none of its requests is in flight.
C21_PhasesInOrder ==
  \A c \in Calls :
    /\ session[c].phase = 1 =>
         /\ session[c].boundaryRanges = <<>>
         /\ session[c].distinctColors = <<>>
         /\ session[c].lookups <= Len(coarseHues)
         /\ \A j \in 1..Len(inflight) :
              inflight[j].call = c => inflight[j].hue \in SeqToSet(coarseHues)
    /\ session[c].phase = 3 =>
         /\ SeqToSet(coarseHues) \subseteq ResolvedHues(c)
         /\ session[c].boundaryRanges = BoundaryRanges(session[c].colorsByHue)
         /\ session[c].lookups <= Len(coarseHues) + Cardinality(Interiors(c))
         /\ \A j \in 1..Len(inflight) :
              inflight[j].call = c =>
                inflight[j].hue \in Interiors(c) \ SeqToSet(coarseHues)
    /\ session[c].distinctColors # <<>> => Returned(c)
    /\ Returned(c) =>
         /\ session[c].phase = 3
         /\ session[c].r > Len(session[c].boundaryRanges)
         /\ Interiors(c) \subseteq ResolvedHues(c)
         /\ InFlightOf(inflight, c) = <<>>

\* A call that sent requests in Phase 1 and in Phase 3, for more than one
\* range, has collected.
C21_Witness ==
  \E c \in Calls :
    /\ Returned(c)
    /\ session[c].phase = 3
    /\ Len(session[c].boundaryRanges) >= 2
    /\ session[c].lookups > Len(coarseHues) + COARSE_STEP
    /\ Output(c) # <<>>

\* The keys whose cache entry a step adds or replaces.
Written == {k \in DOMAIN cache' : k \notin DOMAIN cache \/ cache'[k] # cache[k]}

\* C22: a call sends a request only for a key the cache does not hold when
\* it is sent, and takes every other hue of the chunk from the cache as it
\* is; the step in which a call is made leaves the cache as it was and gives
\* the call the cached colour for every hue it resolves; the cache is
\* written only when a response arrives, at the key of a request in flight.
C22_CacheFirst ==
  [][/\ \A c \in Calls :
          /\ session'[c].lookups > session[c].lookups =>
               /\ \A j \in 1..Len(inflight') :
                    (inflight'[j].call = c) =>
                      KeyOf(session'[c], inflight'[j].hue) \notin DOMAIN cache'
               /\ \A h \in DOMAIN session'[c].chunkResults :
                    /\ KeyOf(session'[c], h) \in DOMAIN cache'
                    /\ session'[c].chunkResults[h] = cache'[KeyOf(session'[c], h)]
          /\ (session[c].pc = "idle" /\ Discovering(c)') =>
               /\ cache' = cache
               /\ \A h \in ResolvedHues(c)' :
                    /\ KeyOf(session'[c], h) \in DOMAIN cache
                    /\ ColorOf(c, h)' = cache[KeyOf(session'[c], h)]
               /\ session'[c].lookups = 0 => InFlightOf(inflight', c) = <<>>
     /\ cache' # cache =>
          /\ \A k \in Written :
               \E j \in 1..Len(inflight) :
                 k = KeyOf(session[inflight[j].call], inflight[j].hue)
          /\ Cardinality(Written) <= 1]_vars

\* A call returned after requests for some of its hues only, and another
\* call returned without a request.
C22_Witness ==
  \E c, d \in Calls :
    /\ Returned(c)
    /\ session[c].lookups > 0
    /\ session[c].lookups < Cardinality(ResolvedHues(c))
    /\ Returned(d)
    /\ session[d].lookups = 0
    /\ Cardinality(ResolvedHues(d)) > Len(coarseHues)

\* The hues a call has a colour for or has asked for: those of colorsByHue,
\* of the chunks of its batch up to the one it waits for, and of the results
\* not yet in colorsByHue.
Asked(c) ==
  ResolvedHues(c)
    \cup SeqToSet(session[c].chunk)
    \cup {session[c].results[j].hue : j \in 1..Len(session[c].results)}

\* C29: a call sends requests only for hues it has neither a colour for nor
\* asked for before, one request for each, and a call that has failed (or
\* has ended otherwise) sends no request again.
C29_NoRetry ==
  [][\A c \in Calls :
       /\ session'[c].lookups > session[c].lookups =>
            LET sent == Outstanding(session'[c])
            IN /\ Len(sent) = session'[c].lookups - session[c].lookups
               /\ \A i, j \in 1..Len(sent) : sent[i] = sent[j] => i = j
               /\ SeqToSet(sent) \cap Asked(c) = {}
               /\ InFlightOf(inflight', c) =
                    [j \in 1..Len(sent) |-> [call |-> c, hue |-> sent[j]]]
       /\ Settled(c) =>
            /\ session'[c].lookups = session[c].lookups
            /\ session'[c].pc = session[c].pc
            /\ Len(InFlightOf(inflight', c)) <= Len(InFlightOf(inflight, c))]_vars

\* A call failed on a lookup after an earlier chunk of lookups was answered,
\* and its failing lookup was logged once.
C29_Witness ==
  \E c \in Calls :
    /\ session[c].pc = "failed"
    /\ session[c].lookups > BATCH_SIZE
    /\ session[c].logged >= 1
    /\ session[c].results # <<>>
    /\ InFlightOf(inflight, c) = <<>>

\* C30: of the calls handleValuesChange has made, only the one made last,
\* the one abortControllerRef refers to, has a signal that is not aborted;
\* each call is made with a signal of its own, not aborted, and a call made
\* earlier has no request in flight and waits for none: its controller was
\* aborted before the next call sent its requests.
C30_OneLiveSignal ==
  env.mounted =>
    /\ \A c \in Calls :
         Discovering(c) =>
           /\ ~session[c].abortedAtCall
           /\ session[c].aborted <=> c # app.abortControllerRef
           /\ c # app.abortControllerRef =>
                /\ session[c].pc # "await"
                /\ InFlightOf(inflight, c) = <<>>
    /\ Cardinality({c \in Calls : Discovering(c) /\ ~session[c].aborted}) <= 1
    /\ app.abortControllerRef # 0 => Discovering(app.abortControllerRef)
    /\ app.abortControllerRef = 0 => \A c \in Calls : ~Discovering(c)

\* Three calls were made in turn: the first was cancelled while it waited
\* for requests, the second had returned when its signal was aborted, the
\* third waits with its signal not aborted.
C30_Witness ==
  \E c, d, e \in Calls :
    /\ env.mounted
    /\ c < d /\ d < e
    /\ session[c].pc = "cancelled" /\ session[c].lookups > 0
    /\ Returned(d) /\ session[d].aborted
    /\ session[e].pc = "await" /\ ~session[e].aborted
    /\ app.abortControllerRef = e

\* The service has answered with one pattern all along.
Steady == ~env.changed

Params(c) == <<session[c].saturation, session[c].lightness>>

\* C23: every colour that enters a call's colorsByHue, the results of its
\* batch or of its chunk, or its sequence, is a colour of the call's own
\* parameters at the hue it is stored under, whatever calls with other
\* parameters run at the same time; and a call that returns while the
\* service keeps its answers returns the sequence it would return alone.
C23_NoInterference ==
  [][\A c \in {d \in Calls : session'[d] # session[d]} :
       LET s == session'[c]
           own(color, h) ==
             /\ color.hue = h
             /\ color.saturation = s.saturation
             /\ color.lightness = s.lightness
       IN /\ s.colorsByHue # session[c].colorsByHue =>
               \A h \in DOMAIN s.colorsByHue.value : own(s.colorsByHue.value[h], h)
          /\ s.chunkResults # session[c].chunkResults =>
               \A h \in DOMAIN s.chunkResults : own(s.chunkResults[h], h)
          /\ s.results # session[c].results =>
               \A j \in 1..Len(s.results) : own(s.results[j], s.results[j].hue)
          /\ s.distinctColors # session[c].distinctColors =>
               /\ s.pc = "returned"
               /\ \A j \in 1..Len(s.distinctColors) :
                    /\ own(s.distinctColors[j], s.distinctColors[j].hue)
                    /\ s.distinctColors[j] = s.colorsByHue.value[s.distinctColors[j].hue]
          /\ (session[c].pc # "returned" /\ s.pc = "returned" /\ ~env'.changed) =>
               /\ AloneTable[remote', <<s.saturation, s.lightness>>].ok
               /\ s.distinctColors = AloneTable[remote', <<s.saturation, s.lightness>>].colors
          /\ (session[c].pc # "idle") =>
               /\ s.saturation = session[c].saturation
               /\ s.lightness = session[c].lightness]_vars

\* Two calls with different parameters, neither returned when the other
\* was made, both sent requests and returned different sequences.
C23_Witness ==
  \E c, d \in Calls :
    /\ c < d
    /\ ~SameParams(c, d)
    /\ Returned(c) /\ Returned(d)
    /\ c \notin session[d].prior
    /\ session[c].lookups > 0 /\ session[d].lookups > 0
    /\ Len(Output(c)) # Len(Output(d))

\* C24: the sequence a call returns holds every name, 'Unnamed' apart, that
\* the service gives to a hue in 0..359 for the call's parameters.
C24_EveryNameReturned ==
  \A c \in Calls :
    (Steady /\ Returned(c)) =>
      NamesTable[remote, Params(c)] \subseteq {Output(c)[j].name : j \in 1..Len(Output(c))}

\* C25: setIsLoading(true) is called only for a call that has a lookup to
\* send, and never for a call served from the cache alone.
C25_LoadingOnlyWhenUncached ==
  \A c \in app.loadingFor : session[c].lookups > 0

\* C28: when a call returns, the cache holds, for every hue of its
\* colorsByHue, an entry under the key of the hue and the call's parameters,
\* and that entry is the colour colorsByHue holds (no reset happens while a
\* call runs).
C28_ResolvedAreCached ==
  [][\A c \in Calls :
       (~Returned(c) /\ Returned(c)') =>
         \A h \in ResolvedHues(c)' :
           /\ KeyOf(session'[c], h) \in DOMAIN cache'
           /\ cache'[KeyOf(session'[c], h)] = ColorOf(c, h)']_vars

\* C27: a step removes a key from the cache only if it is a reset; a reset is
\* no step of fetchColorData or fetchDistinctColors (no call moves, no
\* request is sent or answered in it), and after it the cache holds no key.
C27_OnlyResetRemoves ==
  [][/\ (\E key \in DOMAIN cache : key \notin DOMAIN cache') => env'.resets # env.resets
     /\ env'.resets # env.resets =>
          /\ cache' = <<>>
          /\ session' = session
          /\ inflight' = inflight
     /\ (session' # session \/ inflight' # inflight) =>
          /\ env'.resets = env.resets
          /\ DOMAIN cache \subseteq DOMAIN cache']_vars

\* A call was served from the cache; after a reset a later call with the
\* same parameters looked up every hue it holds, returned, and the cache
\* holds these hues again.
C27_Witness ==
  \E c, d \in Calls :
    /\ c < d
    /\ env.resets > 0
    /\ Returned(c) /\ session[c].lookups = 0
    /\ Returned(d) /\ SameParams(c, d)
    /\ session[d].lookups = Cardinality(ResolvedHues(d))
    /\ \A h \in ResolvedHues(d) : CacheHas(cache, KeyOf(session[d], h))

\* C26: while less than DEBOUNCE_DELAY has passed since the last change (or
\* the mount), onValuesChange has not been called since and one timer is
\* pending, the one of the ref, set for the current values and due
\* DEBOUNCE_DELAY after the change; at DEBOUNCE_DELAY that timer is due or
\* has fired; time passes beyond only once onValuesChange has been called,
\* once, with the current values, and then no timer is pending.
C26_Debounce ==
  (env.debounced /\ controls.mounted) =>
    LET pendingForCurrent ==
          /\ DOMAIN controls.timers = {controls.debounceTimer}
          /\ controls.timers[controls.debounceTimer] =
               [remaining |-> DEBOUNCE_DELAY - controls.sinceChange,
                saturation |-> controls.saturation,
                lightness |-> controls.lightness]
        calledOnce ==
          /\ controls.calledSince = 1
          /\ controls.timers = <<>>
          /\ controls.lastCall = <<controls.saturation, controls.lightness>>
          /\ session[app.abortControllerRef].saturation = controls.saturation
          /\ session[app.abortControllerRef].lightness = controls.lightness
    IN /\ controls.calledSince <= 1
       /\ controls.sinceChange < DEBOUNCE_DELAY =>
            controls.calledSince = 0 /\ pendingForCurrent
       /\ controls.sinceChange = DEBOUNCE_DELAY =>
            (controls.calledSince = 0 /\ pendingForCurrent) \/ calledOnce
       /\ controls.sinceChange > DEBOUNCE_DELAY => calledOnce

\* Two changes and more followed each other, each before the timer of the
\* one before fired, and DEBOUNCE_DELAY after the last onValuesChange was
\* called, for the first time, with the values they left, which are not the
\* ones before the changes.
C26_Witness ==
  /\ env.debounced
  /\ controls.run >= 2
  /\ controls.fired = 1
  /\ controls.calledSince = 1
  /\ controls.sinceChange = DEBOUNCE_DELAY
  /\ controls.lastCall # <<50, 50>>
  /\ controls.debounceTimer = controls.changes + 1
  /\ Returned(2)
  /\ Params(2) = controls.lastCall

\* C31: the loading flag is set exactly while the call handleValuesChange
\* made last waits for the network; it is clear before any call and once
\* that call has returned or failed; a call that was superseded while it
\* waited never calls setIsLoading(false), and a call that returned or
\* failed as the last one has called it.
C31_LoadingTracksLatest ==
  env.mounted =>
    LET ref == app.abortControllerRef
    IN /\ ref = 0 => ~app.isLoading
       /\ ref # 0 => (app.isLoading <=> session[ref].pc = "await")
       /\ app.isLoading => InFlightOf(inflight, ref) # <<>>
       /\ \A c \in Calls :
            /\ session[c].pc \in {"cancelled", "await", "idle", "invalid"}
                 => <<c, "setIsLoading">> \notin app.called
            /\ session[c].pc \in {"returned", "failed"}
                 => <<c, "setIsLoading">> \in app.called

\* A call that had sent requests was superseded while the flag was set; the
\* call that superseded it sent requests, kept the flag set while it waited
\* and has failed: the flag is clear and the error is shown.
C31_Witness ==
  \E c, d \in Calls :
    /\ env.mounted
    /\ c < d
    /\ session[c].pc = "cancelled" /\ session[c].lookups > 0
    /\ session[d].pc = "failed" /\ session[d].lookups > 0
    /\ app.abortControllerRef = d
    /\ ~app.isLoading
    /\ app.loadingFor = {c, d}
    /\ <<d, "setIsLoading">> \in app.called

\* C32: a call that waits for the network ends: it returns, fails or is
\* cancelled, provided every request sent is answered or fails in the end;
\* and while it runs it is within its batch and its ranges, of which there
\* are no more than coarse hues.
C32_CallTerminates ==
  /\ \A c \in Calls : (session[c].pc = "await") ~> Settled(c)
  /\ [](\A c \in Calls :
          /\ session[c].i < Len(session[c].batch) + BATCH_SIZE
          /\ Len(session[c].batch) < HUE_LIMIT
          /\ Len(session[c].boundaryRanges) <= Len(coarseHues)
          /\ session[c].r <= Len(session[c].boundaryRanges) + 1)

\* A call has returned after more than one chunk of lookups and more than
\* one range.
C32_Witness ==
  \E c \in Calls :
    /\ Returned(c)
    /\ session[c].lookups > BATCH_SIZE + COARSE_STEP
    /\ session[c].r > 2
    /\ inflight = <<>>

C35_SameSequence ==
  /\ [][\A c \in {d \in Calls : session'[d].pc # session[d].pc} :
          (Returned(c)' /\ Steady') =>
            /\ AloneTable[remote', Params(c)'].ok
            /\ Output(c)' = AloneTable[remote', Params(c)'].colors]_vars
  /\ [](Steady =>
          \A c, d \in Calls :
            (Returned(c) /\ Returned(d) /\ SameParams(c, d)) => Output(c) = Output(d))

\* Two calls with the same parameters have returned a sequence of several
\* colours: one found every hue in the cache, the other sent requests for
\* several of its hues, which were answered in one order or another.
C35_Witness ==
  /\ Steady
  /\ \E c, d \in Calls :
       /\ c # d
       /\ Returned(c) /\ Returned(d) /\ SameParams(c, d)
       /\ session[c].lookups > 1
       /\ session[c].lookups < Cardinality(ResolvedHues(c))
       /\ session[d].lookups = 0
       /\ Len(Output(c)) > 1

\* App and Controls are mounted and no control has been changed.
NoInput == env.debounced /\ controls.mounted /\ controls.changes = 0

\* C36: after the mount and without a change of the controls,
\* handleValuesChange is called with saturation 50 and lightness 50 by the
\* mount effect, and once more, with the same values, by the timer of
\* Controls DEBOUNCE_DELAY later, and by nothing else; the second call aborts
\* the first, which ends cancelled with no request left in flight if it
\* still waited, and makes a discovery of its own.
C36_MountCallsTwice ==
  /\ [](NoInput =>
          /\ Discovering(1) /\ Params(1) = <<50, 50>>
          /\ controls.fired <= 1
          /\ \A c \in Calls : c > controls.fired + 1 => session[c].pc = "idle"
          /\ controls.fired = 0 =>
               /\ controls.sinceChange <= DEBOUNCE_DELAY
               /\ app.abortControllerRef = 1
               /\ ~session[1].aborted
          /\ controls.fired = 1 =>
               /\ controls.sinceChange >= DEBOUNCE_DELAY
               /\ controls.lastCall = <<50, 50>>
               /\ Discovering(2) /\ Params(2) = <<50, 50>>
               /\ app.abortControllerRef = 2
               /\ session[1].aborted
               /\ session[1].pc # "await"
               /\ InFlightOf(inflight, 1) = <<>>)
  /\ [][(NoInput /\ controls'.fired > controls.fired) =>
          /\ controls.sinceChange = DEBOUNCE_DELAY
          /\ session[1].pc = "await" => session'[1].pc = "cancelled"
          /\ session[1].pc # "await" => session'[1].pc = session[1].pc
          /\ session[2].pc = "idle" /\ Discovering(2)'
          /\ session'[2].lookups > 0 =>
               /\ session'[2].pc = "await"
               /\ InFlightOf(inflight', 2) # <<>>]_vars

\* No control was changed: the call of the mount effect still waited when
\* the timer fired and was cancelled, and the call of the timer sent the
\* request again and returned.
C36_Witness ==
  /\ NoInput
  /\ controls.fired = 1
  /\ session[1].pc = "cancelled" /\ session[1].lookups > 0
  /\ Returned(2) /\ session[2].lookups > 0

====
